---- MODULE Spec2Model ----
(***************************************************************************)
(* Model of my_demos/demo_miso_scalar/main.cpp: the trace of               *)
(* f(x,y,z) = x*x + z*z + 2*x*y + z on tape `tag`, three first-order       *)
(* scalar forward sweeps (keep = 1), one first-order scalar reverse sweep  *)
(* and one call of the gradient driver.                                    *)
(*                                                                         *)
(* The program's own statements (the trace section, my_function, the       *)
(* arguments and order of the driver calls) are translated from main.cpp.  *)
(* The sweeps themselves are code of the AD engine, which is not among the *)
(* source files; they are modelled from sections 4.2 - 4.5 of the design   *)
(* specification (value rule, tangent rule and adjoint rule of each        *)
(* elementary operation).  Values are integers: the inputs are small       *)
(* integers, on which double arithmetic is exact.                          *)
(***************************************************************************)
EXTENDS Integers, Sequences, FiniteSets, TLC

VARIABLES
    pc,         \* position of main
    xp,         \* passive independent vector (main.cpp:40-44)
    delayN,     \* trip count of the delay loop (main.cpp:69)
    j,          \* loop counter of the delay loop
    tracing,    \* between trace_on and trace_off
    sealed,     \* trace_off has run
    tape,       \* the recorded nodes of tape `tag`
    nInd,       \* number of independents recorded on the tape
    outIdx,     \* node designated as the dependent (0: none yet)
    x,          \* active independents: node each adouble x[i] refers to
    y,          \* active dependent: node y[0] refers to (0: none yet)
    yp,         \* passive dependent vector
    x1,         \* tangent vector
    y1,         \* first derivative returned by fos_forward
    u,          \* weight vector
    z,          \* adjoint vector returned by fos_reverse
    grad,       \* result of gradient
    kept,       \* per-node values kept on the tape by a keep = 1 sweep
    adj,        \* adjoints of the running reverse sweep
    ri,         \* node the running reverse sweep visits next
    rc,         \* return status of the last driver call
    printed,    \* the AD derivatives written to cout by the forward section
    sealedTape, \* history: the tape as trace_off left it
    last,       \* history: the last driver call, its arguments and result
    gradFirst,  \* history: the first call of gradient and its result
    again,      \* history: that call was repeated after other calls
    th          \* callers sharing the tape: the call each one is in

traceRest == << delayN, j, tracing, sealed, nInd, outIdx, x, y, sealedTape >>
traceState == << tape, traceRest >>
sweepState == << adj, ri >>
outs == << yp, x1, y1, u, z, grad >>
history == << gradFirst, again >>

vars == << pc, xp, traceState, sweepState, outs, kept, rc, printed, last,
           history, th >>

(***************************************************************************)
(* Bounds and program constants                                            *)
(***************************************************************************)
MaxVal == 3
MaxDelay == 2

\* int m = 1, n = 3: one dependent, three independents
n == 3
\* forward sweeps that keep nothing for a reverse sweep
keepOff == 1 - 1
\* int keep = 1: the forward sweeps prepare a reverse sweep
keep == 1

Values == (-1)..MaxVal
Inputs == [1..n -> Values]
NoVec == << >>
NoKept == [valid |-> FALSE, x |-> NoVec, vals |-> NoVec, dir |-> NoVec]

Vec3(a, b, c) == [i \in 1..n |-> CASE i = 1 -> a [] i = 2 -> b [] OTHER -> c]
Basis(d) == [i \in 1..n |-> IF i = d THEN 1 ELSE 0]

(***************************************************************************)
(* Recording: every elementary operation on active values appends one node *)
(***************************************************************************)
Node(op, a, b, c, val) == [op |-> op, a |-> a, b |-> b, c |-> c, val |-> val]

RecInput(t, slot, v) == Append(t, Node("in", slot, 0, 0, v))
RecConst(t, c) == Append(t, Node("const", 0, 0, c, c))
RecAdd(t, a, b) == Append(t, Node("add", a, b, 0, t[a].val + t[b].val))
RecMul(t, a, b) == Append(t, Node("mul", a, b, 0, t[a].val * t[b].val))

\* my_function with the factor 2 of the mixed term lost: x*x + z*z + x*y + z
MyFunctionNoFactor(t, INs) ==
    LET px == INs[1]  py == INs[2]  pz == INs[3]
        t1 == RecMul(t, px, px)
        t2 == RecMul(t1, pz, pz)
        t3 == RecAdd(t2, Len(t1), Len(t2))
        t4 == RecConst(t3, 1)
        t5 == RecMul(t4, Len(t4), px)
        t6 == RecMul(t5, Len(t5), py)
        t7 == RecAdd(t6, Len(t3), Len(t6))
        t8 == RecAdd(t7, Len(t7), pz)
    IN  [tape |-> t8, out |-> Len(t8)]

\* adouble f = x*x + z*z + 2*x*y + z, the operands of each operator recorded
\* left to right (C++ leaves the order of the two operands of + and * open;
\* another order permutes independent nodes and keeps every operand before
\* the node that uses it).
MyFunction(t, INs) ==
    LET px == INs[1]  py == INs[2]  pz == INs[3]
        t1 == RecMul(t, px, px)                      \* x*x
        t2 == RecMul(t1, pz, pz)                     \* z*z
        t3 == RecAdd(t2, Len(t1), Len(t2))           \* x*x + z*z
        t4 == RecConst(t3, 2)                        \* 2
        t5 == RecMul(t4, Len(t4), px)                \* 2*x
        t6 == RecMul(t5, Len(t5), py)                \* 2*x*y
        t7 == RecAdd(t6, Len(t3), Len(t6))           \* ... + 2*x*y
        t8 == RecAdd(t7, Len(t7), pz)                \* ... + z
    IN  [tape |-> t8, out |-> Len(t8)]

\* the delay statement with 1*j for 0*j
DelayBodyOne(t, p, jj) ==
    LET t1 == RecConst(t, 1 * jj)
        t2 == RecAdd(t1, p, Len(t1))
    IN  [tape |-> t2, out |-> Len(t2)]

\* x[0] = x[0] + 0*j : 0*j is passive (int) arithmetic, the sum is active.
DelayBody(t, p, jj) ==
    LET t1 == RecConst(t, 0 * jj)
        t2 == RecAdd(t1, p, Len(t1))
    IN  [tape |-> t2, out |-> Len(t2)]

(***************************************************************************)
(* Sweeps over a tape (design specification 4.2 - 4.5)                     *)
(***************************************************************************)
\* forward value rule of one node
NodeValue(nd, vals, xs) ==
    CASE nd.op = "in"    -> xs[nd.a]
      [] nd.op = "const" -> nd.c
      [] nd.op = "add"   -> vals[nd.a] + vals[nd.b]
      [] nd.op = "mul"   -> vals[nd.a] * vals[nd.b]

\* forward tangent rule of one node
NodeTangent(nd, vals, tans, xd) ==
    CASE nd.op = "in"    -> xd[nd.a]
      [] nd.op = "const" -> 0
      [] nd.op = "add"   -> tans[nd.a] + tans[nd.b]
      [] nd.op = "mul"   -> tans[nd.a] * vals[nd.b] + vals[nd.a] * tans[nd.b]

\* values of nodes 1..i, replayed in index order
RECURSIVE ValuesUpTo(_, _, _)
ValuesUpTo(t, xs, i) ==
    IF i = 0 THEN << >>
    ELSE LET v == ValuesUpTo(t, xs, i - 1)
         IN  Append(v, NodeValue(t[i], v, xs))

\* tangents of nodes 1..i, propagated in index order
RECURSIVE TangentsUpTo(_, _, _, _)
TangentsUpTo(t, vals, xd, i) ==
    IF i = 0 THEN << >>
    ELSE LET d == TangentsUpTo(t, vals, xd, i - 1)
         IN  Append(d, NodeTangent(t[i], vals, d, xd))

\* the adjoint rule with the second share of a product added to the node itself
ReverseStepSelf(t, vals, ad, i) ==
    LET nd == t[i]
        w  == ad[i]
    IN  CASE nd.op = "add" ->
               LET a1 == [ad EXCEPT ![nd.a] = @ + w]
               IN  [a1 EXCEPT ![nd.b] = @ + w]
          [] nd.op = "mul" ->
               LET a1 == [ad EXCEPT ![nd.a] = @ + w * vals[nd.b]]
               IN  [a1 EXCEPT ![i] = @ + w * vals[nd.a]]
          [] OTHER -> ad

\* reverse adjoint rule of node i: its adjoint is handed to its operands
ReverseStep(t, vals, ad, i) ==
    LET nd == t[i]
        w  == ad[i]
    IN  CASE nd.op = "add" ->
               LET a1 == [ad EXCEPT ![nd.a] = @ + w]
               IN  [a1 EXCEPT ![nd.b] = @ + w]
          [] nd.op = "mul" ->
               LET a1 == [ad EXCEPT ![nd.a] = @ + w * vals[nd.b]]
               IN  [a1 EXCEPT ![nd.b] = @ + w * vals[nd.a]]
          [] OTHER -> ad

\* adjoint of the output is the weight, every other adjoint is 0
InitAdjoints(t, out, w) == [k \in 1..Len(t) |-> IF k = out THEN w ELSE 0]

\* nodes i, i-1, ..., 1 visited in that order
RECURSIVE ReverseFrom(_, _, _, _)
ReverseFrom(t, vals, ad, i) ==
    IF i = 0 THEN ad
    ELSE ReverseFrom(t, vals, ReverseStep(t, vals, ad, i), i - 1)

\* node recorded for independent number slot
InputNode(t, slot) == CHOOSE k \in 1..Len(t) : t[k].op = "in" /\ t[k].a = slot

InputAdjoints(t, ni, ad) == [i \in 1..ni |-> ad[InputNode(t, i)]]

Failed(why) ==
    [rc |-> why, y |-> NoVec, y1 |-> NoVec, z |-> NoVec, vals |-> NoVec,
     tans |-> NoVec]

\* a vector cut or filled with 0 to length ni
Fit(v, ni) == [i \in 1..ni |-> IF i <= Len(v) THEN v[i] ELSE 0]

\* the value pass alone
Evaluate(t, out, ni, xs) ==
    IF Len(xs) # ni
    THEN Failed("DimensionMismatch")
    ELSE LET v == ValuesUpTo(t, xs, Len(t))
         IN  [Failed("ok") EXCEPT !.y = << v[out] >>, !.vals = v]

\* the forward sweep that cuts or fills its vectors instead of refusing them
ForwardSweepFit(t, out, ni, xs, xd) ==
    LET v == ValuesUpTo(t, Fit(xs, ni), Len(t))
        d == TangentsUpTo(t, v, Fit(xd, ni), Len(t))
    IN  [Failed("ok") EXCEPT !.y = << v[out] >>, !.y1 = << d[out] >>,
                             !.vals = v, !.tans = d]

\* value pass and tangent pass in one sweep
ForwardSweep(t, out, ni, xs, xd) ==
    IF Len(xs) # ni \/ Len(xd) # ni
    THEN Failed("DimensionMismatch")
    ELSE LET v == ValuesUpTo(t, xs, Len(t))
             d == TangentsUpTo(t, v, xd, Len(t))
         IN  [Failed("ok") EXCEPT !.y = << v[out] >>, !.y1 = << d[out] >>,
                                  !.vals = v, !.tans = d]

\* the adjoint pass over the values of a value pass
ReverseSweep(t, out, ni, vals, w) ==
    IF Len(vals) # Len(t)
    THEN Failed("DimensionMismatch")
    ELSE [Failed("ok") EXCEPT
            !.z = InputAdjoints(t, ni,
                    ReverseFrom(t, vals, InitAdjoints(t, out, w), Len(t)))]

\* the gradient that sweeps back over whatever values the tape holds
GradientOfStale(t, out, ni, xs) ==
    LET e == Evaluate(t, out, ni, xs)
    IN  IF e.rc # "ok" THEN e
        ELSE IF kept.valid
             THEN [e EXCEPT !.z = ReverseSweep(t, out, ni, kept.vals, 1).z,
                            !.vals = kept.vals]
             ELSE [e EXCEPT !.z = ReverseSweep(t, out, ni, e.vals, 1).z]

\* one value pass, then one reverse sweep with weight 1
GradientOf(t, out, ni, xs) ==
    LET e == Evaluate(t, out, ni, xs)
    IN  IF e.rc # "ok" THEN e
        ELSE [e EXCEPT !.z = ReverseSweep(t, out, ni, e.vals, 1).z]

\* a keep that stores the tangents of the sweep in place of its values
KeepTangents(kp, old, xs, dir, r) ==
    IF kp = 1
    THEN [valid |-> TRUE, x |-> xs,
          vals |-> IF r.tans = NoVec THEN r.vals ELSE r.tans, dir |-> dir]
    ELSE old

\* what a sweep called with keep leaves in the value buffer of the tape
Keep(kp, old, xs, dir, r) ==
    IF kp = 1 THEN [valid |-> TRUE, x |-> xs, vals |-> r.vals, dir |-> dir]
    ELSE old

\* a sweep that writes the values it computes into the nodes
SweepTapeStore(t, vals) == [k \in 1..Len(t) |-> [t[k] EXCEPT !.val = vals[k]]]

\* a sweep reads the sealed tape and leaves it as it is
SweepTape(t, vals) == t

\* the direction with the entry of the call before left at 1
SeedStale(d) == [i \in 1..n |-> IF i = d \/ i = d - 1 THEN 1 ELSE 0]

\* x1[0] = ..; x1[1] = ..; x1[2] = ..: the direction of the d-th forward call
Seed(d) == Basis(d)

\* input vectors and directions the drivers are called with: the vector main
\* uses, one more of the right length, and vectors of length n - 1 and n + 1
GoodInputs == {<< 1, 1, 1 >>, << 2, -1, 3 >>}
BadInputs == {<< 1, 1 >>, << 2, -1, 3, 1 >>}
GoodDirs == {Seed(d) : d \in 1..n}
BadDirs == {<< 0, 1 >>, << 0, 0, 0, 1 >>}

\* callers of the drivers on the one tape
Threads == {"a", "b"}
Idle == [pc |-> "idle", call |-> "none", x |-> NoVec, dir |-> NoVec,
         rc |-> "none", res |-> NoVec, used |-> NoVec]

NoCall == [call |-> "none", keep |-> 0, x |-> NoVec, dir |-> NoVec,
           y |-> NoVec, ret |-> NoVec]
Call(c, kp, xs, dir, yv, ret) ==
    [call |-> c, keep |-> kp, x |-> xs, dir |-> dir, y |-> yv, ret |-> ret]

(***************************************************************************)
(* main: the active section (main.cpp:56-77)                               *)
(***************************************************************************)
Init ==
    /\ pc = "trace_on"
    /\ xp \in Inputs
    /\ delayN \in 0..MaxDelay
    /\ j = 0
    /\ tracing = FALSE
    /\ sealed = FALSE
    /\ tape = << >>
    /\ nInd = 0
    /\ outIdx = 0
    /\ x = << >>
    /\ y = 0
    /\ yp = NoVec
    /\ x1 = NoVec
    /\ y1 = NoVec
    /\ u = NoVec
    /\ z = NoVec
    /\ grad = NoVec
    /\ kept = NoKept
    /\ adj = << >>
    /\ ri = 0
    /\ rc = "none"
    /\ printed = << >>
    /\ sealedTape = [tape |-> << >>, nInd |-> 0, outIdx |-> 0]
    /\ last = NoCall
    /\ gradFirst = NoCall
    /\ again = FALSE
    /\ th = [t \in Threads |-> Idle]

\* trace_on(tag)
TraceOn ==
    /\ pc = "trace_on"
    /\ tracing' = TRUE
    /\ tape' = << >>
    /\ pc' = "independents"
    /\ UNCHANGED << xp, delayN, j, sealed, nInd, outIdx, x, y, sealedTape,
                    sweepState, outs, kept, rc, printed, last, history, th >>

\* x[i] <<= xp[i], for i = 0, 1, 2 in turn
Independent ==
    /\ pc = "independents"
    /\ tracing
    /\ LET slot == nInd + 1
           t    == RecInput(tape, slot, xp[slot])
       IN  /\ tape' = t
           /\ x' = Append(x, Len(t))
           /\ nInd' = slot
           /\ pc' = IF slot = n THEN "delay" ELSE "independents"
    /\ UNCHANGED << xp, delayN, j, tracing, sealed, outIdx, y, sealedTape,
                    sweepState, outs, kept, rc, printed, last, history, th >>

\* one iteration of for (j = 0; j < ...; ++j) {x[0] = x[0] + 0*j;}
DelayIter ==
    /\ pc = "delay"
    /\ j < delayN
    /\ LET r == DelayBody(tape, x[1], j)
       IN  /\ tape' = r.tape
           /\ x' = [x EXCEPT ![1] = r.out]
    /\ j' = j + 1
    /\ UNCHANGED << pc, xp, delayN, tracing, sealed, nInd, outIdx, y,
                    sealedTape, sweepState, outs, kept, rc, printed, last,
                    history, th >>

DelayExit ==
    /\ pc = "delay"
    /\ ~(j < delayN)
    /\ pc' = "body"
    /\ UNCHANGED << xp, traceState, sweepState, outs, kept, rc, printed, last,
                    history, th >>

\* y[0] = my_function(x)
Body ==
    /\ pc = "body"
    /\ LET r == MyFunction(tape, x)
       IN  /\ tape' = r.tape
           /\ y' = r.out
    /\ pc' = "dependent"
    /\ UNCHANGED << xp, delayN, j, tracing, sealed, nInd, outIdx, x,
                    sealedTape, sweepState, outs, kept, rc, printed, last,
                    history, th >>

\* y[0] >>= yp[0]
Dependent ==
    /\ pc = "dependent"
    /\ outIdx' = y
    /\ yp' = << tape[y].val >>
    /\ pc' = "trace_off"
    /\ UNCHANGED << xp, tape, delayN, j, tracing, sealed, nInd, x, y,
                    sealedTape, sweepState, x1, y1, u, z, grad, kept, rc,
                    printed, last, history, th >>

\* trace_off()
TraceOff ==
    /\ pc = "trace_off"
    /\ tracing' = FALSE
    /\ sealed' = TRUE
    /\ sealedTape' = [tape |-> tape, nInd |-> nInd, outIdx |-> outIdx]
    /\ pc' = "fwd_x"
    /\ UNCHANGED << xp, tape, delayN, j, nInd, outIdx, x, y, sweepState, outs,
                    kept, rc, printed, last, history, th >>

(***************************************************************************)
(* The drivers, as main calls them on tape `tag`                           *)
(***************************************************************************)
\* fos_forward(tag, m, n, kp, xs, dir, .., ..): what it returns (in last) and
\* what it leaves on the tape
DoForward(kp, xs, dir) ==
    LET r == ForwardSweep(tape, outIdx, nInd, xs, dir)
    IN  /\ rc' = r.rc
        /\ last' = Call("fos_forward", kp, xs, dir, r.y, r.y1)
        /\ IF r.rc = "ok"
           THEN /\ kept' = Keep(kp, kept, xs, dir, r)
                /\ tape' = SweepTape(tape, r.vals)
           ELSE UNCHANGED << kept, tape >>

\* fos_reverse(tag, m, n, w, ..), the whole sweep
DoReverse(w) ==
    LET r == IF kept.valid
             THEN ReverseSweep(tape, outIdx, nInd, kept.vals, w[1])
             ELSE Failed("NoKeptValues")
    IN  /\ rc' = r.rc
        /\ last' = Call("fos_reverse", 0, kept.x, kept.dir, NoVec, r.z)
        /\ tape' = IF r.rc = "ok" THEN SweepTape(tape, kept.vals) ELSE tape

\* gradient(tag, n, xs, ..): one value pass that keeps, one reverse sweep
DoGradient(xs) ==
    LET r == GradientOf(tape, outIdx, nInd, xs)
    IN  /\ rc' = r.rc
        /\ last' = Call("gradient", 1, xs, NoVec, r.y, r.z)
        /\ IF r.rc = "ok"
           THEN /\ kept' = Keep(1, kept, xs, NoVec, r)
                /\ tape' = SweepTape(tape, r.vals)
           ELSE UNCHANGED << kept, tape >>

(***************************************************************************)
(* main: the driver calls (main.cpp:103-116, 140-142, 167-168)             *)
(***************************************************************************)
\* x1 = e_d; fos_forward(tag, m, n, keep, xp, x1, yp, y1); cout << y1[0]
FosForward(d, here, next) ==
    /\ pc = here
    /\ x1' = Seed(d)
    /\ DoForward(keep, xp, Seed(d))
    /\ yp' = IF rc' = "ok" THEN last'.y ELSE yp
    /\ y1' = IF rc' = "ok" THEN last'.ret ELSE y1
    /\ printed' = IF rc' = "ok" THEN Append(printed, y1'[1]) ELSE printed
    /\ pc' = IF rc' = "ok" THEN next ELSE "failed"
    /\ UNCHANGED << xp, traceRest, sweepState, u, z, grad, history, th >>

\* u[0] = 1; fos_reverse(tag, m, n, u, z): entry of the sweep
FosReverseBegin ==
    /\ pc = "rev"
    /\ u' = << 1 >>
    /\ IF kept.valid /\ Len(kept.vals) = Len(tape)
       THEN /\ adj' = InitAdjoints(tape, outIdx, 1)
            /\ ri' = Len(tape)
            /\ pc' = "rev_walk"
            /\ rc' = rc
       ELSE /\ rc' = "NoKeptValues"
            /\ pc' = "failed"
            /\ UNCHANGED << adj, ri >>
    /\ UNCHANGED << xp, traceState, yp, x1, y1, z, grad, kept, printed, last,
                    history, th >>

\* fos_reverse: the node ri is visited
FosReverseStep ==
    /\ pc = "rev_walk"
    /\ ri > 0
    /\ adj' = ReverseStep(tape, kept.vals, adj, ri)
    /\ ri' = ri - 1
    /\ UNCHANGED << pc, xp, traceState, outs, kept, rc, printed, last,
                    history, th >>

\* fos_reverse: the adjoints of the independents are returned in z
FosReverseEnd ==
    /\ pc = "rev_walk"
    /\ ri = 0
    /\ z' = InputAdjoints(tape, nInd, adj)
    /\ rc' = "ok"
    /\ last' = Call("fos_reverse", 0, kept.x, kept.dir, NoVec, z')
    /\ pc' = "grad"
    /\ UNCHANGED << xp, traceState, sweepState, yp, x1, y1, u, grad, kept,
                    printed, history, th >>

\* gradient(tag, n, xp, grad)
Gradient ==
    /\ pc = "grad"
    /\ DoGradient(xp)
    /\ grad' = IF rc' = "ok" THEN last'.ret ELSE grad
    /\ pc' = IF rc' = "ok" THEN "done" ELSE "failed"
    /\ UNCHANGED << xp, traceRest, sweepState, yp, x1, y1, u, z, printed,
                    history, th >>

Next ==
    \/ TraceOn
    \/ Independent
    \/ DelayIter
    \/ DelayExit
    \/ Body
    \/ Dependent
    \/ TraceOff
    \/ FosForward(1, "fwd_x", "fwd_y")
    \/ FosForward(2, "fwd_y", "fwd_z")
    \/ FosForward(3, "fwd_z", "rev")
    \/ FosReverseBegin
    \/ FosReverseStep
    \/ FosReverseEnd
    \/ Gradient

Spec == Init /\ [][Next]_vars

(***************************************************************************)
(* Any sequence of driver calls on the sealed tape, one call at a time     *)
(***************************************************************************)
InitApi == Init /\ xp = << 1, 1, 1 >>

\* fos_forward(tag, m, n, keep, xs, dir, .., ..) by a caller with arrays of
\* its own
ApiForward(xs, dir) ==
    /\ pc = "fwd_x"
    /\ DoForward(keep, xs, dir)
    /\ UNCHANGED << pc, xp, traceRest, sweepState, outs, printed, history,
                    th >>

\* fos_reverse(tag, m, n, u, ..) with u[0] = 1
ApiReverse ==
    /\ pc = "fwd_x"
    /\ DoReverse(<< 1 >>)
    /\ UNCHANGED << pc, xp, traceRest, sweepState, outs, kept, printed,
                    history, th >>

\* gradient(tag, n, xs, ..)
ApiGradient(xs) ==
    /\ pc = "fwd_x"
    /\ DoGradient(xs)
    /\ gradFirst' = IF gradFirst.call = "none" /\ rc' = "ok"
                    THEN last' ELSE gradFirst
    /\ again' = (again \/ (/\ gradFirst.call # "none"
                           /\ gradFirst.x = xs
                           /\ last.call # "gradient"))
    /\ UNCHANGED << pc, xp, traceRest, sweepState, outs, printed, th >>

NextApi ==
    \/ TraceOn
    \/ Independent
    \/ DelayIter
    \/ DelayExit
    \/ Body
    \/ Dependent
    \/ TraceOff
    \/ \E xs \in GoodInputs \cup BadInputs, dir \in GoodDirs \cup BadDirs :
          ApiForward(xs, dir)
    \/ ApiReverse
    \/ \E xs \in GoodInputs \cup BadInputs : ApiGradient(xs)

SpecApi == InitApi /\ [][NextApi]_vars

(***************************************************************************)
(* Two callers on the sealed tape, their driver calls interleaved          *)
(***************************************************************************)
\* one whole fos_forward(tag, m, n, keep, xs, dir, yp, y1) of caller t
ThForward(t, xs, dir) ==
    /\ pc = "fwd_x"
    /\ th[t].pc \in {"idle", "ret"}
    /\ LET r == ForwardSweep(tape, outIdx, nInd, xs, dir)
       IN  /\ kept' = Keep(keep, kept, xs, dir, r)
           /\ tape' = SweepTape(tape, r.vals)
           /\ th' = [th EXCEPT ![t] =
                       [pc |-> "ret", call |-> "forward", x |-> xs,
                        dir |-> dir, rc |-> r.rc, res |-> r.y1, used |-> xs]]
    /\ UNCHANGED << pc, xp, traceRest, sweepState, outs, rc, printed, last,
                    history >>

\* the value pass of caller t: of an evaluate-then-reverse pair, a forward
\* sweep called with keep as main calls it; of gradient, its own value pass
ThValuePass(t, c, xs) ==
    /\ pc = "fwd_x"
    /\ th[t].pc \in {"idle", "ret"}
    /\ LET r == Evaluate(tape, outIdx, nInd, xs)
       IN  /\ kept' = Keep(IF c = "pair" THEN keep ELSE 1, kept, xs, NoVec, r)
           /\ tape' = SweepTape(tape, r.vals)
           /\ th' = [th EXCEPT ![t] =
                       [pc |-> "mid", call |-> c, x |-> xs, dir |-> NoVec,
                        rc |-> r.rc, res |-> NoVec, used |-> NoVec]]
    /\ UNCHANGED << pc, xp, traceRest, sweepState, outs, rc, printed, last,
                    history >>

\* the reverse sweep of caller t, over the values the tape holds by now
ThReverse(t) ==
    /\ pc = "fwd_x"
    /\ th[t].pc = "mid"
    /\ LET r == IF kept.valid
                THEN ReverseSweep(tape, outIdx, nInd, kept.vals, 1)
                ELSE Failed("NoKeptValues")
       IN  /\ tape' = IF r.rc = "ok" THEN SweepTape(tape, kept.vals) ELSE tape
           /\ th' = [th EXCEPT ![t].pc = "ret", ![t].rc = r.rc,
                               ![t].res = r.z, ![t].used = kept.x]
    /\ UNCHANGED << pc, xp, traceRest, sweepState, outs, kept, rc, printed,
                    last, history >>

NextConc ==
    \/ TraceOn
    \/ Independent
    \/ DelayIter
    \/ DelayExit
    \/ Body
    \/ Dependent
    \/ TraceOff
    \/ \E t \in Threads, xs \in GoodInputs, dir \in GoodDirs :
          ThForward(t, xs, dir)
    \/ \E t \in Threads, c \in {"pair", "gradient"}, xs \in GoodInputs :
          ThValuePass(t, c, xs)
    \/ \E t \in Threads : ThReverse(t)

SpecConc == InitApi /\ [][NextConc]_vars

(***************************************************************************)
(* Properties of main                                                      *)
(***************************************************************************)
\* the hand-derived derivatives main prints beside the AD ones
Analytic(xs) == Vec3(2 * (xs[1] + xs[2]), 2 * xs[1], 2 * xs[3] + 1)

\* the tape the active section records when the delay loop runs 0 times
Trace0(xs) ==
    LET t1 == RecInput(<< >>, 1, xs[1])
        t2 == RecInput(t1, 2, xs[2])
        t3 == RecInput(t2, 3, xs[3])
    IN  MyFunction(t3, << 1, 2, 3 >>)

\* every operand of a node precedes the node
Dag(t) ==
    \A k \in 1..Len(t) :
        t[k].op \in {"add", "mul"} =>
            /\ t[k].a \in 1..(k - 1)
            /\ t[k].b \in 1..(k - 1)

\* C1: when main has called gradient, grad is the analytic gradient
\* (2(x+y), 2x, 2z+1) at the input vector xp, for every xp of the bounded
\* integer set; it is (4,2,3) at (1,1,1), (0,0,1) at (0,0,0) and (2,4,7) at
\* (2,-1,3).
C1_GradientIsAnalytic ==
    pc = "done" =>
        /\ rc = "ok"
        /\ grad = Analytic(xp)
        /\ xp = << 1, 1, 1 >> => grad = << 4, 2, 3 >>
        /\ xp = << 0, 0, 0 >> => grad = << 0, 0, 1 >>
        /\ xp = << 2, -1, 3 >> => grad = << 2, 4, 7 >>

C1_Witness == pc = "done" /\ xp = << 2, -1, 3 >> /\ grad = << 2, 4, 7 >>

\* C2: the three derivatives returned by the three fos_forward calls, seeded
\* with the first, second and third basis vector, are the entries z[0], z[1],
\* z[2] returned by the one fos_reverse call with weight 1 on the same inputs.
C2_ForwardMatchesReverse ==
    pc \in {"grad", "done"} =>
        /\ Len(printed) = n
        /\ u = << 1 >>
        /\ \A i \in 1..n : printed[i] = z[i]

C2_Witness ==
    /\ pc = "grad"
    /\ xp = << 2, -1, 3 >>
    /\ printed = << 2, 4, 7 >>
    /\ z = << 2, 4, 7 >>

\* C7: main never fails a driver call; when the reverse sweep of main runs,
\* the call before it was a forward sweep with keep = 1 over the sealed tape
\* and the inputs xp, the values that sweep kept are those of xp on this tape,
\* and z is the result of the adjoint rules applied to the kept values.
C7_ReverseAfterKeptPass ==
    /\ pc # "failed"
    /\ pc = "rev_walk" =>
          /\ last.call = "fos_forward"
          /\ last.keep = 1
          /\ last.x = xp
          /\ kept.valid
          /\ kept.x = xp
          /\ kept.vals = ValuesUpTo(tape, xp, Len(tape))
          /\ [tape |-> tape, nInd |-> nInd, outIdx |-> outIdx] = sealedTape
    /\ pc = "grad" =>
          /\ last.call = "fos_reverse"
          /\ z = ReverseSweep(tape, outIdx, nInd, kept.vals, u[1]).z

C7_Witness == pc = "rev_walk" /\ ri = 0 /\ kept.valid /\ kept.x = xp

\* C8: the reverse sweep starts from adjoint(output) = weight and 0 elsewhere
\* at the last node, every operand of a node of the tape precedes it, and a
\* step of the sweep, which visits node ri, changes the adjoint neither of ri
\* nor of any node visited before (those above ri).
C8_VisitedAdjointFinal ==
    [][ /\ pc = "rev" /\ pc' = "rev_walk" =>
              /\ adj' = [k \in 1..Len(tape) |-> IF k = outIdx THEN u'[1] ELSE 0]
              /\ ri' = Len(tape)
        /\ pc = "rev_walk" /\ ri > 0 =>
              /\ Dag(tape)
              /\ ri' = ri - 1
              /\ \A k \in ri..Len(tape) : adj'[k] = adj[k] ]_vars

C8_Witness ==
    /\ pc = "rev_walk"
    /\ ri = 1
    /\ \E k \in 1..Len(tape) : tape[k].op = "mul" /\ adj[k] # 0

\* C9: the tape recorded with delayN >= 0 iterations of the delay loop gives,
\* for every input vector, the value, the three forward derivatives, the
\* adjoints of a reverse sweep and the gradient that the tape recorded with no
\* iteration gives, and the value recorded at trace time is the same.
C9_DelayChangesNothing ==
    pc = "fwd_x" =>
        LET t0 == Trace0(xp)
        IN  /\ yp = << t0.tape[t0.out].val >>
            /\ \A xs \in Inputs :
                 LET e  == Evaluate(tape, outIdx, nInd, xs)
                     e0 == Evaluate(t0.tape, t0.out, n, xs)
                 IN  /\ e.y = e0.y
                     /\ \A d \in 1..n :
                          ForwardSweep(tape, outIdx, nInd, xs, Basis(d)).y1
                            = ForwardSweep(t0.tape, t0.out, n, xs, Basis(d)).y1
                     /\ ReverseSweep(tape, outIdx, nInd, e.vals, 1).z
                          = ReverseSweep(t0.tape, t0.out, n, e0.vals, 1).z
                     /\ GradientOf(tape, outIdx, nInd, xs).z
                          = GradientOf(t0.tape, t0.out, n, xs).z

C9_Witness ==
    /\ pc = "fwd_x"
    /\ j = 2
    /\ Len(tape) = Len(Trace0(xp).tape) + 4

Alone(c) ==
    IF c.call = "forward"
    THEN ForwardSweep(tape, outIdx, nInd, c.x, c.dir).y1
    ELSE GradientOf(tape, outIdx, nInd, c.x).z

====
